---- MODULE Spec2Model ----
(***************************************************************************)
(* Model of src/lib/api.ts: the axios-based API client facade of GiftLib.  *)
(*                                                                         *)
(* The state is the persisted credential (localStorage), the endpoint      *)
(* wrapper call in progress (its request, the time it has been waiting,    *)
(* what the transport delivered and what the wrapper did with it) and the  *)
(* toasts emitted while that call ran.  Spec is the request pipeline;      *)
(* SpecPure applies the response-error interceptor and handleError to an   *)
(* arbitrary error object.                                                 *)
(***************************************************************************)
EXTENDS Integers, Sequences, FiniteSets, TLC

VARIABLES
    storage,   \* localStorage['giftlib_api_key']: Null or a string
    lastCred,  \* the last credential write of this session (history)
    got,       \* what getApiKey returned, if it ran after the last write
    call,      \* the endpoint wrapper call in progress
    toasts,    \* toast.error messages emitted since that call began
    perr,      \* SpecPure: the error object under test
    pnotes,    \* SpecPure: toasts the interceptor emitted for perr
    pmsg,      \* SpecPure: message of the Error handleError threw for perr
    ppc        \* SpecPure: "start" -> "intercepted" -> "done" ("off" in Spec)

vars == <<storage, lastCred, got, call, toasts, perr, pnotes, pmsg, ppc>>

(***************************************************************************)
(* JavaScript values.  Strings are themselves; the three below stand for   *)
(* null, undefined and a non-string object (such as a list of validation   *)
(* errors).                                                                *)
(***************************************************************************)
Null == "<null>"
Undefined == "<undefined>"
ObjVal == "<object>"

\* JavaScript truthiness of a value, as tested by `if (v)`.
Truthy(v) == v \notin {Null, Undefined, ""}

\* String(v), the conversion `new Error(v)` and FormData.append apply.
ToStr(v) ==
    IF v = Null THEN "null"
    ELSE IF v = Undefined THEN "undefined"
    ELSE IF v = ObjVal THEN "[object Object]"
    ELSE v

(***************************************************************************)
(* Bounds and input sets.                                                  *)
(***************************************************************************)
TIMEOUT == 30000
TickMs == 10000
MaxWaitMs == 40000

Keys == {"", "k1", "k2"}
Bodies == {"body1", "body2"}
FailStatuses == {400, 401, 403, 404, 500, 503}
Details == {Undefined, "", "A", ObjVal}
Messages == {Undefined, "", "B"}

(***************************************************************************)
(* Toast texts and error messages.                                         *)
(***************************************************************************)
ToastTimeout == "Request timed out. The server may be overloaded or unresponsive."
ToastNetwork == "Connection failed. Please check if the backend server is running."
ToastUnauthorized == "Unauthorized. Please check your API key."
ToastForbidden == "Forbidden. You don't have permission to access this resource."
ToastServerError == "Server error. Please try again later."
FallbackMessage == "An unexpected error occurred"

\* An error object: code, message and, when a response came back, its status
\* and the detail and message fields of its body.
MkError(code, message, hasResponse, status, detail, dmsg) ==
    [code |-> code, message |-> message, hasResponse |-> hasResponse,
     status |-> status, detail |-> detail, dmsg |-> dmsg]

NoError == MkError(Undefined, Undefined, FALSE, 0, Undefined, Undefined)

(***************************************************************************)
(* Request interceptor: the header X-API-Key it leaves on the request,     *)
(* given what localStorage.getItem returned.                               *)
(***************************************************************************)
Absent == "<absent>"

RequestInterceptor_NullCheck(apiKey) ==
    IF apiKey # Null THEN apiKey ELSE Absent

RequestInterceptor(apiKey) ==
    IF Truthy(apiKey) THEN apiKey ELSE Absent

(***************************************************************************)
(* Response interceptor, error branch: the toasts it emits for an error.   *)
(* error.response?.status is undefined without a response, and             *)
(* undefined === 401 and undefined >= 500 are false.                       *)
(***************************************************************************)
ResponseErrorInterceptor_NoElse(error) ==
    (IF error.code = "ECONNABORTED" THEN <<ToastTimeout>> ELSE <<>>)
    \o (IF error.code = "ERR_NETWORK" THEN <<ToastNetwork>> ELSE <<>>)
    \o (IF error.hasResponse /\ error.status = 401 THEN <<ToastUnauthorized>> ELSE <<>>)
    \o (IF error.hasResponse /\ error.status = 403 THEN <<ToastForbidden>> ELSE <<>>)
    \o (IF error.hasResponse /\ error.status >= 500 THEN <<ToastServerError>> ELSE <<>>)

ResponseErrorInterceptor_From400(error) ==
    IF error.code = "ECONNABORTED" THEN <<ToastTimeout>>
    ELSE IF error.code = "ERR_NETWORK" THEN <<ToastNetwork>>
    ELSE IF error.hasResponse /\ error.status = 401 THEN <<ToastUnauthorized>>
    ELSE IF error.hasResponse /\ error.status = 403 THEN <<ToastForbidden>>
    ELSE IF error.hasResponse /\ error.status >= 400 THEN <<ToastServerError>>
    ELSE <<>>

ResponseErrorInterceptor(error) ==
    IF error.code = "ECONNABORTED" THEN <<ToastTimeout>>
    ELSE IF error.code = "ERR_NETWORK" THEN <<ToastNetwork>>
    ELSE IF error.hasResponse /\ error.status = 401 THEN <<ToastUnauthorized>>
    ELSE IF error.hasResponse /\ error.status = 403 THEN <<ToastForbidden>>
    ELSE IF error.hasResponse /\ error.status >= 500 THEN <<ToastServerError>>
    ELSE <<>>

(***************************************************************************)
(* handleResponse and handleError.  handleError always throws; the value   *)
(* here is the message of the Error it throws.                             *)
(***************************************************************************)
handleResponse(data) == data

handleError_MessageFirst(error) ==
    IF error.hasResponse /\ Truthy(error.dmsg) THEN ToStr(error.dmsg)
    ELSE IF error.hasResponse /\ Truthy(error.detail) THEN ToStr(error.detail)
    ELSE IF Truthy(error.message) THEN ToStr(error.message)
    ELSE FallbackMessage

handleError(error) ==
    IF error.hasResponse /\ Truthy(error.detail) THEN ToStr(error.detail)
    ELSE IF error.hasResponse /\ Truthy(error.dmsg) THEN ToStr(error.dmsg)
    ELSE IF Truthy(error.message) THEN ToStr(error.message)
    ELSE FallbackMessage

(***************************************************************************)
(* Credential store accessor: pass-throughs to localStorage, which keeps   *)
(* the string it is given and returns null for a missing key.              *)
(***************************************************************************)
setApiKey(apiKey) == ToStr(apiKey)

getApiKey_OrNull(stored) == IF Truthy(stored) THEN stored ELSE Null

getApiKey(stored) == stored

removeApiKey == Null

NotCalled == "<not called>"
NoWrite == [op |-> "none", key |-> Null]

SetApiKey(k) ==
    /\ storage' = setApiKey(k)
    /\ lastCred' = [op |-> "set", key |-> k]
    /\ got' = NotCalled
    /\ UNCHANGED <<call, toasts, perr, pnotes, pmsg, ppc>>

GetApiKey ==
    /\ got' = getApiKey(storage)
    /\ UNCHANGED <<storage, lastCred, call, toasts, perr, pnotes, pmsg, ppc>>

RemoveApiKey ==
    /\ storage' = removeApiKey
    /\ lastCred' = [op |-> "remove", key |-> Null]
    /\ got' = NotCalled
    /\ UNCHANGED <<call, toasts, perr, pnotes, pmsg, ppc>>

(***************************************************************************)
(* Transports.  `api` is the configured instance (base URL, 30 s timeout,  *)
(* both interceptors); healthCheck and createUser call the bare `axios`    *)
(* export, which has no interceptors and axios's default timeout of 0      *)
(* (none).                                                                 *)
(***************************************************************************)
Transport(ep) == IF ep \in {"healthCheck", "createUser"} THEN "axios" ELSE "api"

TimeoutOf(transport) == IF transport = "api" THEN TIMEOUT ELSE 0

(***************************************************************************)
(* Multipart forms: the sequence of <<name, value>> entries appended.      *)
(***************************************************************************)
CreateUserForm_Always(userData) ==
    << <<"email", ToStr(userData.email)>>,
       <<"full_name", ToStr(userData.full_name)>>,
       <<"company_name", ToStr(userData.company_name)>> >>

CreateUserForm(userData) ==
    << <<"email", ToStr(userData.email)>>,
       <<"full_name", ToStr(userData.full_name)>> >>
    \o (IF Truthy(userData.company_name)
        THEN << <<"company_name", ToStr(userData.company_name)>> >>
        ELSE <<>>)

UpdateEmailConfigForm(config) ==
    << <<"resend_api_key", ToStr(config.resend_api_key)>>,
       <<"from_email", ToStr(config.from_email)>> >>
    \o (IF Truthy(config.sending_domain)
        THEN << <<"sending_domain", ToStr(config.sending_domain)>> >>
        ELSE <<>>)

UploadExcelForm(file, campaignId) ==
    << <<"file", file>>, <<"campaign_id", ToStr(campaignId)>> >>

\* testData.entries lists the object's own keys in Object.keys order.
KeepEntry(e) == e[2] \notin {Null, Undefined}

Stringified(entries) == [i \in 1..Len(entries) |-> <<entries[i][1], ToStr(entries[i][2])>>]

TestEmailConfigForm(testData) == Stringified(SelectSeq(testData.entries, KeepEntry))

NoBody == [kind |-> "none", fields |-> <<>>]
JsonBody == [kind |-> "json", fields |-> <<>>]
FormBody(fields) == [kind |-> "form", fields |-> fields]

(***************************************************************************)
(* Inputs of the endpoint wrappers.                                        *)
(***************************************************************************)
DefaultLimit == 1000

OptionalValues == {Undefined, "", "opt"}
UserDatas ==
    [email : {"a@x"}, full_name : {"Ann"}, company_name : OptionalValues]
EmailConfigs ==
    [resend_api_key : {"re_1"}, from_email : {"f@x"}, sending_domain : OptionalValues]
TestValues == {Null, "v"}
TestDatas ==
    {[nullish |-> TRUE, entries |-> <<>>]}
    \cup {[nullish |-> FALSE, entries |-> << <<"to_email", a>>, <<"subject", b>> >>]
            : a \in TestValues, b \in TestValues}
Ids == {"id1"}
NoInput == [none |-> TRUE]

(***************************************************************************)
(* The call in progress.                                                   *)
(***************************************************************************)
IdleCall ==
    [ep |-> "none", phase |-> "idle", transport |-> "none", method |-> "none",
     path |-> "", input |-> NoInput, body |-> NoBody, header |-> Absent,
     timeout |-> 0, elapsed |-> 0, sent |-> 0, status |-> 0,
     error |-> NoError, data |-> Undefined, result |-> Undefined]

\* The wrapper has built its request and called the transport; the request
\* interceptor and the dispatch run in a later microtask (Send).
NewCall(ep, method, path, input, body) ==
    [IdleCall EXCEPT !.ep = ep, !.phase = "pending", !.transport = Transport(ep),
                     !.method = method, !.path = path, !.input = input,
                     !.body = body, !.timeout = TimeoutOf(Transport(ep))]

\* The catch block of every wrapper: handleError(error) throws.
AwaitRejected_Swallow(c, error) ==
    [c EXCEPT !.phase = "returned", !.error = error,
              !.status = IF error.hasResponse THEN error.status ELSE 0,
              !.result = Undefined]

AwaitRejected(c, error) ==
    [c EXCEPT !.phase = "raised", !.error = error,
              !.status = IF error.hasResponse THEN error.status ELSE 0,
              !.result = handleError(error)]

\* The try block after the await: return handleResponse(response).
AwaitResolved(c, status, data) ==
    [c EXCEPT !.phase = "returned", !.status = status, !.data = data,
              !.result = handleResponse(data)]

CanCall == call.phase \in {"idle", "returned", "raised"}

Begin(ep, method, path, input, body) ==
    /\ CanCall
    /\ call' = NewCall(ep, method, path, input, body)
    /\ toasts' = <<>>
    /\ UNCHANGED <<storage, lastCred, got, perr, pnotes, pmsg, ppc>>

HealthCheck == Begin("healthCheck", "GET", "/", NoInput, NoBody)

CreateUser(userData) ==
    Begin("createUser", "POST", "/api/users", userData, FormBody(CreateUserForm(userData)))

GetUserProfile == Begin("getUserProfile", "GET", "/api/user/profile", NoInput, NoBody)

InitiateGift(giftData) ==
    Begin("initiateGift", "POST", "/api/initiate-gift", [data |-> giftData], JsonBody)

BulkInitiateGifts(bulkData) ==
    Begin("bulkInitiateGifts", "POST", "/api/bulk-initiate-gifts", [data |-> bulkData], JsonBody)

GetAllGifts(limit) ==
    Begin("getAllGifts", "GET", "/api/gifts", [limit |-> limit], NoBody)

GetCampaignGifts(campaignId) ==
    Begin("getCampaignGifts", "GET", "/api/campaign-gifts/" \o campaignId,
          [id |-> campaignId], NoBody)

UpdateGiftStatus(statusData) ==
    Begin("updateGiftStatus", "PUT", "/api/gift-status", [data |-> statusData], JsonBody)

GetGiftStatus(giftId) ==
    Begin("getGiftStatus", "GET", "/api/gift-status/" \o giftId, [id |-> giftId], NoBody)

VerifyGift(giftId, verified) ==
    Begin("verifyGift", "POST", "/api/verify-gift",
          [giftId |-> giftId, verified |-> verified], JsonBody)

DownloadExcelTemplate ==
    Begin("downloadExcelTemplate", "GET", "/api/download-excel-template", NoInput, NoBody)

UploadExcelFile(file, campaignId) ==
    Begin("uploadExcelFile", "POST", "/api/upload-excel",
          [file |-> file, id |-> campaignId], FormBody(UploadExcelForm(file, campaignId)))

GetEmailConfig == Begin("getEmailConfig", "GET", "/api/email-config", NoInput, NoBody)

UpdateEmailConfig(config) ==
    Begin("updateEmailConfig", "POST", "/api/email-config", config,
          FormBody(UpdateEmailConfigForm(config)))

\* Object.keys(null) throws a TypeError inside the try block: the catch
\* block normalises it and no request is issued.
KeysTypeError ==
    MkError(Undefined, "Cannot convert undefined or null to object", FALSE, 0,
            Undefined, Undefined)

TestEmailConfig(testData) ==
    /\ CanCall
    /\ call' = IF testData.nullish
               THEN AwaitRejected(
                        [IdleCall EXCEPT !.ep = "testEmailConfig", !.input = testData,
                                         !.transport = Transport("testEmailConfig")],
                        KeysTypeError)
               ELSE NewCall("testEmailConfig", "POST", "/api/email-config/test",
                            testData, FormBody(TestEmailConfigForm(testData)))
    /\ toasts' = <<>>
    /\ UNCHANGED <<storage, lastCred, got, perr, pnotes, pmsg, ppc>>

(***************************************************************************)
(* The transport.                                                          *)
(***************************************************************************)
\* Request interceptors (api only) run, then the request is dispatched.
Send ==
    /\ call.phase = "pending"
    /\ call' = [call EXCEPT !.phase = "inflight",
                            !.sent = @ + 1,
                            !.header = IF call.transport = "api"
                                       THEN RequestInterceptor(storage)
                                       ELSE Absent]
    /\ UNCHANGED <<storage, lastCred, got, toasts, perr, pnotes, pmsg, ppc>>

\* Time passes while the request is in flight and its timer has not expired.
Tick ==
    /\ call.phase = "inflight"
    /\ call.elapsed + TickMs <= MaxWaitMs
    /\ call.timeout = 0 \/ call.elapsed + TickMs < call.timeout
    /\ call' = [call EXCEPT !.elapsed = @ + TickMs]
    /\ UNCHANGED <<storage, lastCred, got, toasts, perr, pnotes, pmsg, ppc>>

\* What the response-error interceptor emits for this call's failure: only
\* requests of the api instance pass through it.
Notify(c, error) ==
    IF c.transport = "api" THEN ResponseErrorInterceptor(error) ELSE <<>>

Reject(error) ==
    /\ toasts' = toasts \o Notify(call, error)
    /\ call' = AwaitRejected(call, error)
    /\ UNCHANGED <<storage, lastCred, got, perr, pnotes, pmsg, ppc>>

TimeoutError ==
    MkError("ECONNABORTED", "timeout of " \o ToString(TIMEOUT) \o "ms exceeded",
            FALSE, 0, Undefined, Undefined)

NetworkError == MkError("ERR_NETWORK", "Network Error", FALSE, 0, Undefined, Undefined)

HttpError(status, detail, dmsg) ==
    MkError(IF status >= 500 THEN "ERR_BAD_RESPONSE" ELSE "ERR_BAD_REQUEST",
            "Request failed with status code " \o ToString(status),
            TRUE, status, detail, dmsg)

\* The request's timer (config.timeout > 0) expires.
TransportTimeout ==
    /\ call.phase = "inflight"
    /\ call.timeout > 0
    /\ call.elapsed + TickMs >= call.timeout
    /\ toasts' = toasts \o Notify(call, TimeoutError)
    /\ call' = AwaitRejected([call EXCEPT !.elapsed = call.timeout], TimeoutError)
    /\ UNCHANGED <<storage, lastCred, got, perr, pnotes, pmsg, ppc>>

TransportNetworkError ==
    /\ call.phase = "inflight"
    /\ Reject(NetworkError)

\* A response whose status fails validateStatus (not 2xx).
TransportHttpError(status, detail, dmsg) ==
    /\ call.phase = "inflight"
    /\ Reject(HttpError(status, detail, dmsg))

SuccessStatuses == {200, 201}

\* A 2xx response: the response interceptor passes it through unchanged.
TransportSuccess(status, data) ==
    /\ call.phase = "inflight"
    /\ call' = AwaitResolved(call, status, data)
    /\ UNCHANGED <<storage, lastCred, got, toasts, perr, pnotes, pmsg, ppc>>

Init ==
    /\ storage \in {Null} \cup Keys
    /\ lastCred = NoWrite
    /\ got = NotCalled
    /\ call = IdleCall
    /\ toasts = <<>>
    /\ perr = NoError
    /\ pnotes = <<>>
    /\ pmsg = Undefined
    /\ ppc = "off"

Next ==
    \/ \E k \in Keys : SetApiKey(k)
    \/ GetApiKey
    \/ RemoveApiKey
    \/ HealthCheck
    \/ \E u \in UserDatas : CreateUser(u)
    \/ GetUserProfile
    \/ \E g \in {"gift1"} : InitiateGift(g)
    \/ \E b \in {"bulk1"} : BulkInitiateGifts(b)
    \/ \E n \in {DefaultLimit} : GetAllGifts(n)
    \/ \E i \in Ids : GetCampaignGifts(i)
    \/ \E s \in {"status1"} : UpdateGiftStatus(s)
    \/ \E i \in Ids : GetGiftStatus(i)
    \/ \E i \in Ids, v \in BOOLEAN : VerifyGift(i, v)
    \/ DownloadExcelTemplate
    \/ \E i \in Ids : UploadExcelFile("file1", i)
    \/ GetEmailConfig
    \/ \E c \in EmailConfigs : UpdateEmailConfig(c)
    \/ \E t \in TestDatas : TestEmailConfig(t)
    \/ Send
    \/ Tick
    \/ TransportTimeout
    \/ TransportNetworkError
    \/ \E s \in FailStatuses, d \in Details, m \in Messages : TransportHttpError(s, d, m)
    \/ \E s \in SuccessStatuses, b \in Bodies : TransportSuccess(s, b)

Spec == Init /\ [][Next]_vars

(***************************************************************************)
(* SpecPure: the response-error interceptor and handleError applied to an  *)
(* arbitrary error object (any code with or without any response).         *)
(***************************************************************************)
Codes == {Undefined, "ECONNABORTED", "ERR_NETWORK", "ERR_BAD_REQUEST", "ERR_BAD_RESPONSE"}
ErrorMessages == {Undefined, "", "Network Error"}
PureStatuses == FailStatuses \cup {402, 499, 502, 599}

AnyError ==
    {MkError(c, m, FALSE, 0, Undefined, Undefined) : c \in Codes, m \in ErrorMessages}
    \cup {MkError(c, m, TRUE, s, d, dm) :
            c \in Codes, m \in ErrorMessages, s \in PureStatuses,
            d \in Details, dm \in Messages}

PureInit ==
    /\ storage = Null
    /\ lastCred = NoWrite
    /\ got = NotCalled
    /\ call = IdleCall
    /\ toasts = <<>>
    /\ perr \in AnyError
    /\ pnotes = <<>>
    /\ pmsg = Undefined
    /\ ppc = "start"

PureIntercept ==
    /\ ppc = "start"
    /\ pnotes' = ResponseErrorInterceptor(perr)
    /\ ppc' = "intercepted"
    /\ UNCHANGED <<storage, lastCred, got, call, toasts, perr, pmsg>>

PureHandle ==
    /\ ppc = "intercepted"
    /\ pmsg' = handleError(perr)
    /\ ppc' = "done"
    /\ UNCHANGED <<storage, lastCred, got, call, toasts, perr, pnotes>>

PureNext == PureIntercept \/ PureHandle

SpecPure == PureInit /\ [][PureNext]_vars

(***************************************************************************)
(* Properties.                                                             *)
(***************************************************************************)
Settled == call.phase \in {"returned", "raised"}
Dispatched == call.phase \in {"inflight", "returned", "raised"}
SendStep == call.phase = "pending" /\ call'.phase = "inflight"
NonEmpty(v) == v \notin {Null, Undefined, ""}
IsSuccess(status) == status >= 200 /\ status <= 299

\* C1 as stated: every request any wrapper sends carries X-API-Key equal to
\* the value stored at that moment, and carries no such header when nothing
\* is stored.
C1_HeaderOnEveryRequest ==
    [][SendStep =>
        call'.header = (IF storage # Null THEN storage ELSE Absent)]_vars

\* C1 amended: a request sent through the configured api instance carries
\* X-API-Key equal to the value stored when it is sent if that value is a
\* non-empty string, and no such header if nothing or the empty string is
\* stored; healthCheck and createUser requests never carry the header.
C1_HeaderOnApiRequests ==
    [][SendStep =>
        call'.header = (IF call.transport = "api" /\ NonEmpty(storage)
                        THEN storage ELSE Absent)]_vars

C1_Witness ==
    /\ call.phase = "inflight"
    /\ call.ep = "getUserProfile"
    /\ call.header = "k2"
    /\ lastCred = [op |-> "set", key |-> "k2"]

\* C2 as stated: the thrown message is detail if present, else message if
\* present, else the error's own message, else the fallback.
C2_PresentPrecedence ==
    ppc = "done" =>
        pmsg = (IF perr.hasResponse /\ perr.detail # Undefined THEN ToStr(perr.detail)
                ELSE IF perr.hasResponse /\ perr.dmsg # Undefined THEN ToStr(perr.dmsg)
                ELSE IF perr.message # Undefined THEN ToStr(perr.message)
                ELSE FallbackMessage)

\* C2 amended: the thrown message is the first non-empty one of
\* response.data.detail, response.data.message and the error's own message
\* (in its string form), and the fallback when all three are absent or empty.
C2_NonEmptyPrecedence ==
    ppc = "done" =>
        LET d == perr.hasResponse /\ NonEmpty(perr.detail)
            m == perr.hasResponse /\ NonEmpty(perr.dmsg)
            e == NonEmpty(perr.message)
        IN  /\ d => pmsg = ToStr(perr.detail)
            /\ ~d /\ m => pmsg = ToStr(perr.dmsg)
            /\ ~d /\ ~m /\ e => pmsg = ToStr(perr.message)
            /\ ~d /\ ~m /\ ~e => pmsg = FallbackMessage

C2_Witness ==
    /\ ppc = "done"
    /\ perr.hasResponse
    /\ perr.detail = "A"
    /\ perr.dmsg = "B"
    /\ pmsg = "A"

\* C3: a response with status 401 produces exactly one "unauthorized"
\* notification, whichever wrapper issued the request.
C3_UnauthorizedOnEveryEndpoint ==
    Settled /\ call.status = 401 => toasts = <<ToastUnauthorized>>

\* C4: a request that has run past the timeout threshold has produced
\* exactly one timeout notification and its wrapper has raised the timeout
\* message (or the fallback).
C4_TimeoutNotifiedAndRaised ==
    Dispatched /\ call.elapsed > TIMEOUT =>
        /\ call.phase = "raised"
        /\ toasts = <<ToastTimeout>>
        /\ call.result \in {TimeoutError.message, FallbackMessage}

\* C5: a failed response whose status is none of 401, 403, 5xx (and whose
\* error is no timeout or network error) produces no notification, and the
\* wrapper raises instead of returning.
C5_UnclassifiedSilentButRaised ==
    (/\ Settled
     /\ call.sent = 1
     /\ call.status # 0
     /\ ~IsSuccess(call.status)
     /\ call.status \notin {401, 403}
     /\ call.status < 500
     /\ call.error.code \notin {"ECONNABORTED", "ERR_NETWORK"})
    => toasts = <<>> /\ call.phase = "raised"

C5_Witness ==
    /\ call.phase = "raised"
    /\ call.ep = "getUserProfile"
    /\ call.status = 404
    /\ toasts = <<>>

\* C6: a response with a 5xx status produces exactly one "server error"
\* notification and no other.
C6_ServerErrorNotified ==
    Settled /\ call.status >= 500 => toasts = <<ToastServerError>>

\* C7: getApiKey returns the key of the last setApiKey when no removeApiKey
\* followed it, and null when the last write was removeApiKey.
C7_LastWriteWins ==
    got # NotCalled =>
        /\ lastCred.op = "set" => got = lastCred.key
        /\ lastCred.op = "remove" => got = Null

C7_Witness ==
    /\ got = "k2"
    /\ lastCred = [op |-> "set", key |-> "k2"]

FieldNames(fields) == {fields[i][1] : i \in 1..Len(fields)}
FieldValue(fields, name) ==
    LET i == CHOOSE j \in 1..Len(fields) : fields[j][1] = name IN fields[i][2]

\* The form holds exactly the two required fields plus the optional one
\* when `included`, each once, with the input's values.
ExactForm(fields, req1, v1, req2, v2, opt, vopt, included) ==
    /\ FieldNames(fields) = {req1, req2} \cup (IF included THEN {opt} ELSE {})
    /\ Len(fields) = Cardinality(FieldNames(fields))
    /\ FieldValue(fields, req1) = v1
    /\ FieldValue(fields, req2) = v2
    /\ included => FieldValue(fields, opt) = vopt

\* C8 as stated: the optional field is sent if and only if it was provided.
C8_OptionalIffProvided ==
    /\ Dispatched /\ call.ep = "createUser" =>
        ExactForm(call.body.fields, "email", call.input.email,
                  "full_name", call.input.full_name,
                  "company_name", call.input.company_name,
                  call.input.company_name # Undefined)
    /\ Dispatched /\ call.ep = "updateEmailConfig" =>
        ExactForm(call.body.fields, "resend_api_key", call.input.resend_api_key,
                  "from_email", call.input.from_email,
                  "sending_domain", call.input.sending_domain,
                  call.input.sending_domain # Undefined)

\* C8 amended: createUser sends exactly email and full_name, plus
\* company_name if and only if it was provided as a non-empty string;
\* updateEmailConfig sends exactly resend_api_key and from_email, plus
\* sending_domain if and only if it was provided as a non-empty string.
C8_OptionalIffNonEmpty ==
    /\ Dispatched /\ call.ep = "createUser" =>
        ExactForm(call.body.fields, "email", call.input.email,
                  "full_name", call.input.full_name,
                  "company_name", call.input.company_name,
                  NonEmpty(call.input.company_name))
    /\ Dispatched /\ call.ep = "updateEmailConfig" =>
        ExactForm(call.body.fields, "resend_api_key", call.input.resend_api_key,
                  "from_email", call.input.from_email,
                  "sending_domain", call.input.sending_domain,
                  NonEmpty(call.input.sending_domain))

C8_Witness ==
    /\ call.phase = "inflight"
    /\ call.ep = "createUser"
    /\ call.input.company_name = "opt"
    /\ Len(call.body.fields) = 3

\* The five tests of the classification, in priority order.
MatchesCategory(e, i) ==
    CASE i = 1 -> e.code = "ECONNABORTED"
      [] i = 2 -> e.code = "ERR_NETWORK"
      [] i = 3 -> e.hasResponse /\ e.status = 401
      [] i = 4 -> e.hasResponse /\ e.status = 403
      [] i = 5 -> e.hasResponse /\ e.status >= 500

CategoryToast(i) ==
    CASE i = 1 -> ToastTimeout
      [] i = 2 -> ToastNetwork
      [] i = 3 -> ToastUnauthorized
      [] i = 4 -> ToastForbidden
      [] i = 5 -> ToastServerError

OneOutcome ==
    /\ call.phase = "returned" =>
        /\ call.error = NoError
        /\ IsSuccess(call.status)
        /\ call.result = call.data
        /\ toasts = <<>>
    /\ call.phase = "raised" =>
        /\ call.error # NoError
        /\ ~IsSuccess(call.status)
        /\ NonEmpty(call.result)
    /\ Len(toasts) <= 1

\* C10 as stated: every wrapper call issues exactly one HTTP request and
\* then either returns the body or raises one normalized error.
C10_ExactlyOneRequest ==
    /\ call.sent <= 1
    /\ Settled => call.sent = 1
    /\ OneOutcome

\* C10 amended: every wrapper call issues at most one HTTP request, and
\* exactly one unless building the payload throws (testEmailConfig given null
\* or undefined), in which case it raises a normalized error without issuing
\* a request; it ends returning the body, with no notification, when the
\* request succeeded and raising one normalized error otherwise.
C10_AtMostOneRequest ==
    /\ call.sent <= 1
    /\ Settled =>
        \/ call.sent = 1
        \/ /\ call.sent = 0
           /\ call.ep = "testEmailConfig"
           /\ call.input.nullish
           /\ call.phase = "raised"
    /\ OneOutcome

C10_Witness ==
    /\ call.phase = "raised"
    /\ call.ep = "initiateGift"
    /\ call.sent = 1
    /\ call.status = 500
    /\ toasts = <<ToastServerError>>

====
